---------------------------- MODULE Spec2Model ----------------------------
(***************************************************************************)
(* Rolling-cache result servers of the repository.                         *)
(*                                                                         *)
(*   variant "v1"   src/unnamed/part_002 lines 1-233: single fetch per     *)
(*                  cycle, 21-entry cache, Puppeteer fallback on 401/403/  *)
(*                  409, GET /api/history may start a cycle itself.        *)
(*   variant "v2"   src/unnamed/part_002 lines 235-470: tolerant           *)
(*                  extraction and mapping, 21-entry cache, ten prediction *)
(*                  blocks.                                                *)
(*   variant "cron" src/index.js lines 30-285: 30-minute retention window, *)
(*                  cron poll, predictors p1..p10.                         *)
(*                                                                         *)
(* Node runs one synchronous segment of JavaScript at a time: every action *)
(* below is one such segment (from a trigger or the resumption of an await *)
(* up to the next await or the end of the callback).                       *)
(*                                                                         *)
(* Strings are sequences of UTF-16 code units.  The model's alphabet is    *)
(* the space, '-', the decimal digits and 'a'; JSON numbers are carried    *)
(* as the string String() gives them.                                      *)
(***************************************************************************)
EXTENDS Integers, Sequences, FiniteSets, TLC

VARIABLES
  variant,       \* which server program is running
  historyCache,  \* part_002:19 / :252   newest-first entries
  lastUpdate,    \* part_002:20 / :253
  isUpdating,    \* part_002:21 / :254
  clock,         \* what now() = Date.now() returns
  cycles,        \* executions of updateOnce that are past the isUpdating check
  primed,        \* the boot IIFE has called updateOnce
  timerOn,       \* setInterval(updateOnce, REFRESH_MS) is installed
  lastCall,      \* what the latest step did in updateOnce, if it ran any of it
  fetched,       \* what the fetch awaited by the latest step settled to, if any
  res,           \* the HTTP response sent by the latest step, if any
  entries,       \* index.js:67   newest-first entries of the cron variant
  lastMinuteKey, \* index.js:68
  rawRecord,     \* the upstream record handed to a mapper called on its own
  mappedEntry,   \* what that mapper returned
  oneMinHistory  \* index.js:2   the history array of the fragment index.js:1-28

vars == <<variant, historyCache, lastUpdate, isUpdating, clock, cycles,
          primed, timerOn, lastCall, fetched, res, entries, lastMinuteKey,
          rawRecord, mappedEntry, oneMinHistory>>

-----------------------------------------------------------------------------
(* Program constants *)

\* part_002:15 DESIRED_CACHE
DESIRED_CACHE == 21
\* part_002:247 CACHE_SIZE
CACHE_SIZE == 21
\* part_002:16 / :246 FETCH_PAGE_SIZE
FETCH_PAGE_SIZE == 12
\* part_002:249 WINDOWS
WINDOWS == <<1, 5, 7, 9, 11, 13, 15, 17, 19, 21>>

(* Bounds of the model *)

\* the upstream serves NumPages different pages of issues
NumPages == 2
\* now() ranges over 0 .. MaxClock
MaxClock == 2
\* cap on simultaneously running executions of updateOnce
MaxCycles == 2
\* the upstream's pages end PageStride issues apart
PageStride == 9

-----------------------------------------------------------------------------
(* Strings *)

\* code units of the model's alphabet
Ch == [sp |-> 32, minus |-> 45, zero |-> 48, nine |-> 57, a |-> 97]

\* the value JavaScript calls undefined (also standing for JSON null: the
\* code reads fields only through ?? and String(x ?? ''))
undefined == <<-1>>

IsDigit(c) == c >= Ch.zero /\ c <= Ch.nine

RECURSIVE DecStr(_)
\* String(n) for a natural number n
DecStr(n) == IF n < 10 THEN <<Ch.zero + n>> ELSE DecStr(n \div 10) \o <<Ch.zero + (n % 10)>>

RECURSIVE TrimLeft(_)
TrimLeft(s) == IF s # <<>> /\ Head(s) = Ch.sp THEN TrimLeft(Tail(s)) ELSE s

RECURSIVE TrimRight(_)
TrimRight(s) ==
  IF s # <<>> /\ s[Len(s)] = Ch.sp THEN TrimRight(SubSeq(s, 1, Len(s) - 1)) ELSE s

\* String.prototype.trim
Trim(s) == TrimRight(TrimLeft(s))

RECURSIVE DigitsValue(_)
\* the number written by a non-empty sequence of decimal digits
DigitsValue(s) ==
  IF s = <<>> THEN 0
  ELSE DigitsValue(SubSeq(s, 1, Len(s) - 1)) * 10 + (s[Len(s)] - Ch.zero)

AllDigits(s) == \A i \in 1..Len(s) : IsDigit(s[i])

RECURSIVE StrLess(_, _)
\* a < b on strings: code unit by code unit, a proper prefix is smaller
StrLess(a, b) ==
  IF b = <<>> THEN FALSE
  ELSE IF a = <<>> THEN TRUE
  ELSE IF Head(a) # Head(b) THEN Head(a) < Head(b)
  ELSE StrLess(Tail(a), Tail(b))

\* StringToBigInt of the trimmed string t, signed telling whether it starts
\* with '-' and body being what follows the sign
StringToBigInt(t, signed, body) ==
  IF t = <<>> THEN [ok |-> TRUE, val |-> 0]
  ELSE IF body # <<>> /\ AllDigits(body)
       THEN [ok |-> TRUE,
             val |-> IF signed THEN 0 - DigitsValue(body) ELSE DigitsValue(body)]
       ELSE [ok |-> FALSE, val |-> 0]

\* the sign of the trimmed string t is split off
SignedBigInt(t, signed) == StringToBigInt(t, signed, IF signed THEN Tail(t) ELSE t)

\* StringToBigInt of the trimmed string t
TrimmedBigInt(t) == SignedBigInt(t, t # <<>> /\ Head(t) = Ch.minus)

\* BigInt(x): [ok |-> TRUE, val |-> n], or ok = FALSE where BigInt throws
\* (TypeError on undefined, SyntaxError on a string that is no integer
\* literal).  StringToBigInt trims white space and reads "" as 0n.
BigInt(x) ==
  IF x = undefined THEN [ok |-> FALSE, val |-> 0]
  ELSE TrimmedBigInt(Trim(x))

RECURSIVE DigitPrefix(_)
\* the longest prefix of s made of decimal digits
DigitPrefix(s) ==
  IF s # <<>> /\ IsDigit(Head(s)) THEN <<Head(s)>> \o DigitPrefix(Tail(s)) ELSE <<>>

\* Number.parseInt(s, 10): [nan |-> TRUE] or the integer read from the
\* longest prefix "white space, optional sign, digits"
parseInt(s) ==
  LET t == TrimLeft(s)
      signed == t # <<>> /\ Head(t) = Ch.minus
      ds == DigitPrefix(IF signed THEN Tail(t) ELSE t)
  IN IF ds = <<>> THEN [nan |-> TRUE, val |-> 0]
     ELSE [nan |-> FALSE, val |-> IF signed THEN 0 - DigitsValue(ds) ELSE DigitsValue(ds)]

Abs(n) == IF n < 0 THEN 0 - n ELSE n


-----------------------------------------------------------------------------
(* Upstream records and the mappers *)

\* item.k for a record of the upstream list; a missing key reads undefined
Get(item, k) == IF k \in DOMAIN item THEN item[k] ELSE undefined

\* a list element that is null: reading a property of it throws TypeError
NullItem == [isNull |-> <<>>]

IsNullItem(item) == "isNull" \in DOMAIN item

RECURSIVE Coalesce(_)
\* a ?? b ?? c ...: the first value of the sequence that is not undefined
Coalesce(vals) ==
  IF vals = <<>> THEN undefined
  ELSE IF Head(vals) # undefined THEN Head(vals)
  ELSE Coalesce(Tail(vals))

\* what mapItem returns for a record it rejects
null == [isNullEntry |-> TRUE]

\* no record is being mapped on its own; no mapper has returned
NoItem == [none |-> TRUE]
NotMapped == [pending |-> TRUE]

\* the numeric remainder a % b of JavaScript (sign of the dividend)
JsRem(a, b) == IF a >= 0 THEN a % b ELSE 0 - ((0 - a) % b)

\* mapItem without Math.abs
mapItemSigned(item) ==
  LET period == Trim(Coalesce(<<Get(item, "issueNumber"), Get(item, "issue"),
                                Get(item, "period"), Get(item, "issue_no"),
                                Get(item, "IssueNumber"), Get(item, "Issue"), <<>>>>))
      rawNum == Coalesce(<<Get(item, "number"), Get(item, "result"),
                           Get(item, "openNumber"), Get(item, "open_no"),
                           Get(item, "No"), Get(item, "no")>>)
      n == parseInt(Trim(IF rawNum = undefined THEN <<>> ELSE rawNum))
      isBig == JsRem(n.val, 10) >= 5
  IN IF period = <<>> \/ n.nan THEN null
     ELSE [period |-> period, number |-> JsRem(n.val, 10), isBig |-> isBig,
           label |-> IF isBig THEN "BIG" ELSE "SMALL"]

\* part_002:274-286.  Throws (TypeError) on a null list element.
mapItem(item) ==
  LET period == Trim(Coalesce(<<Get(item, "issueNumber"), Get(item, "issue"),
                                Get(item, "period"), Get(item, "issue_no"),
                                Get(item, "IssueNumber"), Get(item, "Issue"), <<>>>>))
      rawNum == Coalesce(<<Get(item, "number"), Get(item, "result"),
                           Get(item, "openNumber"), Get(item, "open_no"),
                           Get(item, "No"), Get(item, "no")>>)
      n == parseInt(Trim(IF rawNum = undefined THEN <<>> ELSE rawNum))
      isBig == (Abs(n.val) % 10) >= 5
  IN IF period = <<>> \/ n.nan THEN null
     ELSE [period |-> period, number |-> Abs(n.val) % 10, isBig |-> isBig,
           label |-> IF isBig THEN "BIG" ELSE "SMALL"]

\* list.map(mapItem).filter(Boolean), part_002:426 and :431
RECURSIVE mapAndFilter(_)
mapAndFilter(list) ==
  IF list = <<>> THEN <<>>
  ELSE LET m == mapItem(Head(list))
       IN (IF m = null THEN <<>> ELSE <<m>>) \o mapAndFilter(Tail(list))

\* the number NaN
NaN == 0 - 999999

\* part_002:54-64 (v1), one element.  Throws (TypeError) on a null element.
mapListItem(item) ==
  LET raw == Get(item, "number")
      n == IF raw = undefined THEN [nan |-> TRUE, val |-> 0] ELSE parseInt(raw)
      num == IF n.nan THEN NaN ELSE JsRem(n.val, 10)
  IN [period |-> Get(item, "issueNumber"), number |-> num,
      isBig |-> (num # NaN /\ num >= 5),
      label |-> IF num # NaN /\ num >= 5 THEN "BIG" ELSE "SMALL"]

\* part_002:54-64 (v1)
mapList(list) == [i \in 1..Len(list) |-> mapListItem(list[i])]

\* some element of the list makes the mapper throw
MapThrows(list) == \E i \in 1..Len(list) : IsNullItem(list[i])

-----------------------------------------------------------------------------
(* The comparators given to Array.prototype.sort *)

\* part_002:300-304: the comparison of two periods s and t, A and B being
\* what BigInt makes of them
compareParsed(A, B, s, t) ==
  IF A.ok /\ B.ok
  THEN (IF A.val < B.val THEN 1 ELSE IF A.val > B.val THEN -1 ELSE 0)
  ELSE (IF StrLess(s, t) THEN 1 ELSE IF StrLess(t, s) THEN -1 ELSE 0)

\* comparePeriods with the order turned around
comparePeriodsAscending(a, b) ==
  compareParsed(BigInt(b.period), BigInt(a.period), b.period, a.period)

\* part_002:298-305: the comparator of v2 (numeric when both periods are
\* integer literals, else by string)
comparePeriods(a, b) ==
  compareParsed(BigInt(a.period), BigInt(b.period), a.period, b.period)

\* part_002:44: A < B ? 1 : A > B ? -1 : 0
compareBigInts(A, B) == IF A < B THEN 1 ELSE IF A > B THEN -1 ELSE 0

\* part_002:40-45: the comparator of v1 where it does not throw
comparePeriodsV1(a, b) == compareBigInts(BigInt(a.period).val, BigInt(b.period).val)

\* index.js:125, :140, :220 (b.tISTms - a.tISTms)
byTimeDesc(a, b) == b.tISTms - a.tISTms

\* index.js:217 Number(b.period) - Number(a.period)
byPeriodDesc(a, b) == b.period.n - a.period.n

\* the comparator (x,y)=>x-y of index.js:112
ascending(x, y) == x - y

\* the call of the comparator named cmp
callComparator(cmp, a, b) ==
  CASE cmp = "comparePeriods" -> comparePeriods(a, b)
    [] cmp = "comparePeriodsV1" -> comparePeriodsV1(a, b)
    [] cmp = "byTimeDesc" -> byTimeDesc(a, b)
    [] cmp = "byPeriodDesc" -> byPeriodDesc(a, b)
    [] cmp = "ascending" -> ascending(a, b)

-----------------------------------------------------------------------------
(* Array.prototype.sort as V8 runs it on fewer than 64 elements: one run is *)
(* counted (and reversed when strictly descending), the rest is inserted by *)
(* binary insertion.  Indices are 0-based as in V8; arr[i + 1] reads i.     *)

Reverse(s) == [i \in 1..Len(s) |-> s[Len(s) + 1 - i]]

RECURSIVE RunEnd(_, _, _, _)
\* the length of the run that starts at index 0, idx being the next index
RunEnd(arr, cmp, isDescending, idx) ==
  IF idx >= Len(arr) THEN idx
  ELSE IF isDescending = (callComparator(cmp, arr[idx + 1], arr[idx]) >= 0) THEN idx
  ELSE RunEnd(arr, cmp, isDescending, idx + 1)

\* the run found is reversed in place when it descends
MakeRun(arr, isDescending, runLength) ==
  [len |-> runLength,
   arr |-> IF isDescending
           THEN Reverse(SubSeq(arr, 1, runLength)) \o SubSeq(arr, runLength + 1, Len(arr))
           ELSE arr]

CountRun(arr, cmp, isDescending) ==
  MakeRun(arr, isDescending, RunEnd(arr, cmp, isDescending, 2))

CountAndMakeRun(arr, cmp) == CountRun(arr, cmp, callComparator(cmp, arr[2], arr[1]) < 0)

RECURSIVE InsertionPoint(_, _, _, _, _)
\* the binary search of the place of pivot in arr[left..right)
InsertionPoint(arr, cmp, pivot, left, right) ==
  IF left >= right THEN left
  ELSE IF callComparator(cmp, pivot, arr[(left + ((right - left) \div 2)) + 1]) < 0
       THEN InsertionPoint(arr, cmp, pivot, left, left + ((right - left) \div 2))
       ELSE InsertionPoint(arr, cmp, pivot, left + ((right - left) \div 2) + 1, right)

\* arr with the element at index start moved to index left
MoveTo(arr, start, left) ==
  SubSeq(arr, 1, left) \o <<arr[start + 1]>> \o SubSeq(arr, left + 1, start)
    \o SubSeq(arr, start + 2, Len(arr))

RECURSIVE BinaryInsertionSort(_, _, _)
BinaryInsertionSort(arr, cmp, start) ==
  IF start >= Len(arr) THEN arr
  ELSE BinaryInsertionSort(
         MoveTo(arr, start, InsertionPoint(arr, cmp, arr[start + 1], 0, start)),
         cmp, start + 1)

\* the run is extended over the whole array
SortFromRun(run, cmp) == BinaryInsertionSort(run.arr, cmp, run.len)

\* Array.prototype.sort leaving the array as it is
ArrayNoSort(arr, cmp) == arr

ArraySort(arr, cmp) ==
  IF Len(arr) < 2 THEN arr ELSE SortFromRun(CountAndMakeRun(arr, cmp), cmp)

-----------------------------------------------------------------------------
(* The cache merge *)

\* pushUnseen without adding the pushed periods to `seen`
pushUnseenOfCache(cache, items) ==
  LET fresh(it) == \A i \in 1..Len(cache) : cache[i].period # it.period
  IN cache \o SelectSeq(items, fresh)

RECURSIVE pushUnseen(_, _)
\* part_002:290-296 and :32-38: push every item whose period is not yet seen
pushUnseen(cache, items) ==
  IF items = <<>> THEN cache
  ELSE IF \E i \in 1..Len(cache) : cache[i].period = Head(items).period
       THEN pushUnseen(cache, Tail(items))
       ELSE pushUnseen(Append(cache, Head(items)), Tail(items))

\* capTo without the slice
capToNothing(cache, n) == cache

\* capTo cutting one entry more, slice(0, n - 1)
capToBelow(cache, n) == IF Len(cache) > n THEN SubSeq(cache, 1, n - 1) ELSE cache

\* capTo keeping the last n entries, slice(-n)
capToLast(cache, n) ==
  IF Len(cache) > n THEN SubSeq(cache, Len(cache) - n + 1, Len(cache)) ELSE cache

\* part_002:306 and :47-49
capTo(cache, n) == IF Len(cache) > n THEN SubSeq(cache, 1, n) ELSE cache

\* mergeIntoCache without the `seen` test
mergeIntoCachePushAll(cache, items) ==
  IF items = <<>> THEN [cache |-> cache, stamped |-> FALSE]
  ELSE [cache |-> capTo(ArraySort(cache \o items, "comparePeriods"), CACHE_SIZE),
        stamped |-> TRUE]

\* part_002:288-308 (v2): the cache after mergeIntoCache(items), and whether
\* lastUpdate = now() was reached
mergeIntoCache(cache, items) ==
  IF items = <<>> THEN [cache |-> cache, stamped |-> FALSE]
  ELSE [cache |-> capTo(ArraySort(pushUnseen(cache, items), "comparePeriods"), CACHE_SIZE),
        stamped |-> TRUE]

\* part_002:42-43: sorting arr calls BigInt on a period it throws on (every
\* element of an array of two or more is compared at least once)
sortThrowsV1(arr) ==
  Len(arr) >= 2 /\ \E i \in 1..Len(arr) : ~BigInt(arr[i].period).ok

\* part_002:31-51 (v1): the cache after mergeIntoCache(items), whether it
\* threw, and whether lastUpdate = now() was reached.  A comparator that
\* throws ends sort before it writes anything back: the pushed entries stay.
mergeIntoCacheV1(cache, items) ==
  LET pushed == pushUnseen(cache, items)
  IN IF sortThrowsV1(pushed)
     THEN [cache |-> pushed, threw |-> TRUE, stamped |-> FALSE]
     ELSE [cache |-> capTo(ArraySort(pushed, "comparePeriodsV1"), DESIRED_CACHE),
           threw |-> FALSE, stamped |-> TRUE]

-----------------------------------------------------------------------------
(* What the upstream may answer *)

Item(p, n) == [issueNumber |-> p, number |-> n]

\* the upstream's page of FETCH_PAGE_SIZE consecutive issues ending at issue
\* `last`, newest first; the drawn number of issue i is 3 * i
IssuePage(last) ==
  [i \in 1..FETCH_PAGE_SIZE |-> Item(DecStr(last - i + 1), DecStr(3 * (last - i + 1)))]

\* the issues a page can end at
PageEnds == {FETCH_PAGE_SIZE + PageStride * j : j \in 0..(NumPages - 1)}

\* the newest issue of the upstream: its issues are "1" .. DecStr(MaxIssue)
MaxIssue == FETCH_PAGE_SIZE + PageStride * (NumPages - 1)

\* lists an upstream (or a proxy in front of it) can also send
OddPages ==
  { \* "07": numerically equal to issue "7", another string
    <<Item(<<Ch.zero, Ch.zero + 7>>, DecStr(5))>>,
    \* "1a": not an integer literal
    <<Item(<<Ch.zero + 1, Ch.a>>, DecStr(8))>>,
    \* " 24 " and "24": one period twice in a page, with two numbers
    <<Item(<<Ch.sp>> \o DecStr(MaxIssue) \o <<Ch.sp>>, DecStr(0)),
      Item(DecStr(MaxIssue), DecStr(5))>>,
    \* no identity; a number that does not parse
    <<[number |-> DecStr(5)], Item(DecStr(3), <<Ch.a>>)>>,
    \* a null element
    <<NullItem>>,
    <<>> }

IssuePages == {IssuePage(e) : e \in PageEnds}

Pages == IssuePages \cup OddPages

\* v1 keeps every record as it comes (no trimming, no rejection) and its sort
\* throws on the first period that is no integer literal; it is fed a page
\* that makes it do so: period "1a" with the number -13, issue "0" without a
\* number, and a record without an issue number
OddPagesV1 ==
  { <<Item(<<Ch.zero + 1, Ch.a>>, <<Ch.minus>> \o DecStr(13)),
      [issueNumber |-> DecStr(0)],
      [number |-> DecStr(5)]>>,
    <<NullItem>>,
    <<>> }

PagesV1 == IssuePages \cup OddPagesV1

\* a response: the HTTP status and the decoded body; a JSON body holds one
\* array, at the place `shape` names
JsonBody(code, shape, list) == [json |-> TRUE, code |-> code, shape |-> shape, list |-> list]

TextBody == [json |-> FALSE]

\* answers that are not a 200 with the list at data.list
OtherResponses ==
  {[status |-> 200, body |-> JsonBody(1, "list", IssuePage(FETCH_PAGE_SIZE))],
   [status |-> 200, body |-> JsonBody(0, "rows", IssuePage(FETCH_PAGE_SIZE))],
   [status |-> 403, body |-> JsonBody(0, "data.list", IssuePage(FETCH_PAGE_SIZE))],
   [status |-> 200, body |-> TextBody],
   [status |-> 500, body |-> TextBody]}

Responses ==
  {[status |-> 200, body |-> JsonBody(0, "data.list", p)] : p \in Pages}
    \cup OtherResponses

ResponsesV1 ==
  {[status |-> 200, body |-> JsonBody(0, "data.list", p)] : p \in PagesV1}
    \cup OtherResponses

\* the fetch rejected (network error, or the body could not be read)
Rejected == [status |-> 0, body |-> TextBody]

\* what is recorded of a settled fetch: whether it rejected, its status,
\* whether its body was JSON and how many records that held
Seen(r) ==
  [rejected |-> r = Rejected, status |-> r.status, json |-> r.body.json,
   records |-> IF r.body.json THEN Len(r.body.list) ELSE 0]

NoFetch == [rejected |-> FALSE, status |-> 0 - 1, json |-> FALSE, records |-> 0]

\* part_002:260-272 extractList(typeof body === 'object' ? body : {})
extractList(body) ==
  IF ~body.json THEN <<>>
  ELSE IF body.shape \in {"data.list", "data", "list", "data.List"} THEN body.list
  ELSE \* heuristic: the first key holding a non-empty array of objects
       IF body.list # <<>> THEN body.list ELSE <<>>

-----------------------------------------------------------------------------
(* Query surface *)

NoRes == [kind |-> "none"]

RECURSIVE sumBig(_)
\* part_002:316: slice.reduce((a, i) => a + (i.isBig ? 1 : 0), 0)
sumBig(slice) ==
  IF slice = <<>> THEN 0
  ELSE sumBig(SubSeq(slice, 1, Len(slice) - 1))
         + (IF slice[Len(slice)].isBig THEN 1 ELSE 0)

\* computeAllPredictions with `<=` for `<` at part_002:312
computeAllPredictionsLate(cache) ==
  [idx \in 1..Len(WINDOWS) |->
    LET win == WINDOWS[idx]
    IN IF Len(cache) <= win
       THEN [block |-> idx, window |-> win, ready |-> FALSE, prediction |-> "WAIT",
             big |-> 0, small |-> 0]
       ELSE LET slice == SubSeq(cache, 1, win)
                big == sumBig(slice)
                small == win - big
            IN [block |-> idx, window |-> win, ready |-> TRUE,
                prediction |-> IF big >= small THEN "BIG" ELSE "SMALL",
                big |-> big, small |-> small]]

\* part_002:310-326
computeAllPredictions(cache) ==
  [idx \in 1..Len(WINDOWS) |->
    LET win == WINDOWS[idx]
    IN IF Len(cache) < win
       THEN [block |-> idx, window |-> win, ready |-> FALSE, prediction |-> "WAIT",
             big |-> 0, small |-> 0]
       ELSE LET slice == SubSeq(cache, 1, win)
                big == sumBig(slice)
                small == win - big
            IN [block |-> idx, window |-> win, ready |-> TRUE,
                prediction |-> IF big >= small THEN "BIG" ELSE "SMALL",
                big |-> big, small |-> small]]

\* part_002:215-220 and :459: the body of GET /api/history
historyBody(cache, updated) ==
  [kind |-> "history", updatedAt |-> updated, size |-> Len(cache), list |-> cache]

\* part_002:455: the body of GET /api/predictions
predictionsBody(cache, updated) ==
  [kind |-> "predictions", updatedAt |-> updated,
   predictions |-> computeAllPredictions(cache)]

\* part_002:207: the body of GET /health
healthBody(cache, updated) ==
  [kind |-> "health", ok |-> TRUE, cacheSize |-> Len(cache), lastUpdate |-> updated]

-----------------------------------------------------------------------------
(* The update cycle *)

RemoveAt(seq, i) == SubSeq(seq, 1, i - 1) \o SubSeq(seq, i + 1, Len(seq))

IsServer == variant \in {"v1", "v2"}

\* updateOnce without the test of isUpdating
updateOnceUnguarded(src) ==
  /\ Len(cycles) < MaxCycles
  /\ isUpdating' = TRUE
  /\ cycles' = Append(cycles, [src |-> src, pc |-> "http"])
  /\ lastCall' = "started"

\* part_002:165-167 and :413-415: a call of updateOnce up to its first await
updateOnce(src) ==
  IF isUpdating
  THEN /\ lastCall' = "skipped"
       /\ UNCHANGED <<isUpdating, cycles>>
  ELSE /\ Len(cycles) < MaxCycles
       /\ isUpdating' = TRUE
       /\ cycles' = Append(cycles, [src |-> src, pc |-> "http"])
       /\ lastCall' = "started"

\* endCycle without the `finally`: an exception leaves the flag set
endCycleNoFinally(i, how, cache, updated) ==
  /\ historyCache' = cache
  /\ lastUpdate' = updated
  /\ isUpdating' = (how = "threw")
  /\ cycles' = RemoveAt(cycles, i)
  /\ timerOn' = (timerOn \/ cycles[i].src = "boot")
  /\ res' = IF cycles[i].src = "history" THEN historyBody(cache, updated) ELSE NoRes
  /\ lastCall' = how
  /\ UNCHANGED <<variant, rawRecord, mappedEntry, oneMinHistory, clock, primed, entries, lastMinuteKey>>

\* part_002:191-193 and :439-441 (finally), then what awaited the cycle:
\* the boot IIFE installs the interval (part_002:199-200, :446-447), the
\* handler of GET /api/history of v1 answers (part_002:213-220)
endCycle(i, how, cache, updated) ==
  /\ historyCache' = cache
  /\ lastUpdate' = updated
  /\ isUpdating' = FALSE
  /\ cycles' = RemoveAt(cycles, i)
  /\ timerOn' = (timerOn \/ cycles[i].src = "boot")
  /\ res' = IF cycles[i].src = "history" THEN historyBody(cache, updated) ELSE NoRes
  /\ lastCall' = how
  /\ UNCHANGED <<variant, rawRecord, mappedEntry, oneMinHistory, clock, primed, entries, lastMinuteKey>>

\* the cycle goes on to await the Puppeteer fetch
awaitPuppeteer(i) ==
  /\ cycles' = [cycles EXCEPT ![i].pc = "pup"]
  /\ res' = NoRes
  /\ lastCall' = "awaiting"
  /\ UNCHANGED <<variant, rawRecord, mappedEntry, oneMinHistory, historyCache, lastUpdate, isUpdating, clock, primed, timerOn, entries, lastMinuteKey>>

\* part_002:426-428 and :431-433 (v2): map, merge, return; a mapper that
\* throws leaves the cache as it is (catch, part_002:437-438)
mapAndMerge(i, list) ==
  IF MapThrows(list)
  THEN endCycle(i, "threw", historyCache, lastUpdate)
  ELSE LET m == mergeIntoCache(historyCache, mapAndFilter(list))
       IN endCycle(i, "merged", m.cache, IF m.stamped THEN clock ELSE lastUpdate)

\* part_002:172-174 and :181-183 (v1): map, merge, return; a merge that
\* throws has pushed already (catch, part_002:189-190)
mapAndMergeV1(i, list) ==
  IF MapThrows(list)
  THEN endCycle(i, "threw", historyCache, lastUpdate)
  ELSE LET m == mergeIntoCacheV1(historyCache, mapList(list))
       IN endCycle(i, IF m.threw THEN "threw" ELSE "merged", m.cache,
                   IF m.stamped THEN clock ELSE lastUpdate)

\* part_002:171 and :180 (v1): the test of a fetched result
usableV1(r) ==
  r.status = 200 /\ r.body.json /\ r.body.code = 0 /\ r.body.shape = "data.list"

\* part_002:419-420 and :424-425 (v2): the test of a fetched result
usable(r) == r.status = 200 /\ extractList(r.body) # <<>>

\* part_002:409 and :111: what the Puppeteer fetch returns without Puppeteer
PuppeteerMissing == [status |-> 598, body |-> JsonBody(0 - 1, "none", <<>>)]

PuppeteerMissingV1 == [status |-> 599, body |-> JsonBody(0 - 1, "none", <<>>)]

\* part_002:398-400 and :155-157: the fetch inside the page failed; the
\* callback returns { status: 599, data: String(e) }
PageFetchFailed == [status |-> 599, body |-> TextBody]

-----------------------------------------------------------------------------
(* Actions *)

\* the module body runs: the boot IIFE calls updateOnce, the server listens
Boot ==
  /\ IsServer /\ ~primed
  /\ primed' = TRUE
  /\ updateOnce("boot")
  /\ res' = NoRes /\ fetched' = NoFetch
  /\ UNCHANGED <<variant, rawRecord, mappedEntry, oneMinHistory, historyCache, lastUpdate, clock, timerOn, entries, lastMinuteKey>>

\* part_002:200 and :447: the interval fires
Tick ==
  /\ IsServer /\ timerOn
  /\ updateOnce("tick")
  /\ res' = NoRes /\ fetched' = NoFetch
  /\ UNCHANGED <<variant, rawRecord, mappedEntry, oneMinHistory, historyCache, lastUpdate, clock, primed, timerOn, entries, lastMinuteKey>>

\* part_002:417-434 (v2): fetchOnceViaHTTP settles (it rejects, or resolves
\* to r) and updateOnce runs on to its next await or to its end
HttpDone(i) ==
  /\ variant = "v2" /\ cycles[i].pc = "http"
  /\ \E r \in Responses \cup {Rejected} :
       /\ fetched' = Seen(r)
       /\ IF r = Rejected THEN endCycle(i, "threw", historyCache, lastUpdate)
          ELSE IF usable(r) THEN mapAndMerge(i, extractList(r.body))
          ELSE awaitPuppeteer(i)

\* part_002:423-441 (v2): fetchOnceViaPuppeteerIfAvailable settles (598 when
\* Puppeteer is missing or fails, 599 when the page's fetch fails, else what
\* the page's fetch got) and
\* updateOnce runs to its end
PupDone(i) ==
  /\ variant = "v2" /\ cycles[i].pc = "pup"
  /\ \E r \in Responses \cup {PuppeteerMissing, PageFetchFailed} :
       /\ fetched' = Seen(r)
       /\ IF usable(r) THEN mapAndMerge(i, extractList(r.body))
          ELSE endCycle(i, "nodata", historyCache, lastUpdate)

\* part_002:170-194 (v1): fetchOnceViaHTTP settles
HttpDoneV1(i) ==
  /\ variant = "v1" /\ cycles[i].pc = "http"
  /\ \E r \in ResponsesV1 \cup {Rejected} :
       /\ fetched' = Seen(r)
       /\ IF r = Rejected THEN endCycle(i, "threw", historyCache, lastUpdate)
          ELSE IF usableV1(r) THEN mapAndMergeV1(i, r.body.list)
          ELSE IF r.status \in {403, 401, 409} THEN awaitPuppeteer(i)
          ELSE endCycle(i, "nodata", historyCache, lastUpdate)

\* part_002:179-194 (v1): fetchOnceViaPuppeteer settles (599 when Puppeteer
\* is missing or the page's fetch fails, a rejection when the browser fails,
\* else what the page's fetch got)
PupDoneV1(i) ==
  /\ variant = "v1" /\ cycles[i].pc = "pup"
  /\ \E r \in ResponsesV1 \cup {Rejected, PuppeteerMissingV1, PageFetchFailed} :
       /\ fetched' = Seen(r)
       /\ IF r = Rejected THEN endCycle(i, "threw", historyCache, lastUpdate)
          ELSE IF usableV1(r) THEN mapAndMergeV1(i, r.body.list)
          ELSE endCycle(i, "nodata", historyCache, lastUpdate)

\* part_002:210-221: GET /api/history of v1
GetHistoryV1 ==
  /\ variant = "v1" /\ primed
  /\ IF Len(historyCache) = 0 /\ ~isUpdating
     THEN /\ updateOnce("history")
          /\ res' = NoRes
     ELSE /\ res' = historyBody(historyCache, lastUpdate)
          /\ lastCall' = "none"
          /\ UNCHANGED <<isUpdating, cycles>>
  /\ fetched' = NoFetch
  /\ UNCHANGED <<variant, rawRecord, mappedEntry, oneMinHistory, historyCache, lastUpdate, clock, primed, timerOn, entries, lastMinuteKey>>

\* part_002:207: GET /health of v1
GetHealthV1 ==
  /\ variant = "v1" /\ primed
  /\ res' = healthBody(historyCache, lastUpdate)
  /\ lastCall' = "none" /\ fetched' = NoFetch
  /\ UNCHANGED <<variant, rawRecord, mappedEntry, oneMinHistory, historyCache, lastUpdate, isUpdating, clock, cycles, primed, timerOn, entries, lastMinuteKey>>

\* part_002:458-460: GET /api/history of v2
GetHistory ==
  /\ variant = "v2" /\ primed
  /\ res' = historyBody(historyCache, lastUpdate)
  /\ lastCall' = "none" /\ fetched' = NoFetch
  /\ UNCHANGED <<variant, rawRecord, mappedEntry, oneMinHistory, historyCache, lastUpdate, isUpdating, clock, cycles, primed, timerOn, entries, lastMinuteKey>>

\* part_002:454-456: GET /api/predictions of v2
GetPredictions ==
  /\ variant = "v2" /\ primed
  /\ res' = predictionsBody(historyCache, lastUpdate)
  /\ lastCall' = "none" /\ fetched' = NoFetch
  /\ UNCHANGED <<variant, rawRecord, mappedEntry, oneMinHistory, historyCache, lastUpdate, isUpdating, clock, cycles, primed, timerOn, entries, lastMinuteKey>>

\* time passes: now() returns a later value
Advance ==
  /\ IsServer /\ clock < MaxClock
  /\ clock' = clock + 1
  /\ res' = NoRes
  /\ lastCall' = "none" /\ fetched' = NoFetch
  /\ UNCHANGED <<variant, rawRecord, mappedEntry, oneMinHistory, historyCache, lastUpdate, isUpdating, cycles, primed, timerOn, entries, lastMinuteKey>>

-----------------------------------------------------------------------------
(* The cron variant, index.js:30-285.  Its clock is istNow() in            *)
(* milliseconds (Date.now() + 330 * 60 * 1000, index.js:71 and :117).      *)
(* A period of the form YYYYMMDDHHmm is carried as the IST minute it       *)
(* writes, counted from the model's epoch: Stamp(m) is the twelve digits   *)
(* of minute m, and Number() of it is abstracted by m (same order).        *)

\* index.js:50 BDG_PAGE_SIZE
BDG_PAGE_SIZE == 10
\* index.js:57 RESULT_RANGE_MAX
RESULT_RANGE_MAX == 99
\* index.js:58 RETENTION_MINUTES
RETENTION_MINUTES == 30
\* index.js:71 the offset of IST in minutes
IST_OFFSET_MINUTES == 330
\* index.js:118 milliseconds of a minute (60 * 1000)
MsPerMinute == 60000
\* index.js:165 the timeout of the poll
FETCH_TIMEOUT_MS == 12000
\* index.js:245 the cron expression '5 * * * * *' fires at second 5
CRON_SECOND_MS == 5000
\* index.js:229-238 the shortest history each of p1..p10 works on
MinHistory == <<10, 10, 6, 4, 7, 8, 9, 12, 10, 21>>

(* Bounds of the cron model *)

\* the IST minute at whose start the process is started
StartMinute == 10
\* the last IST minute a cron tick is followed to
MaxMinute == 45
\* how many minutes after its start the upstream stops sending odd pages
OddSpan == 10
\* the minutes from one followed cron tick to the next (the ticks between
\* them are ticks whose poll was rejected, which change nothing but
\* lastMinuteKey)
TickJumps == {0, 5, 10}

\* JavaScript values of a row's fields
Stamp(m) == [kind |-> "stamp", n |-> m, text |-> <<>>]
Str(s) == [kind |-> "string", n |-> 0, text |-> s]
Num(n) == [kind |-> "number", n |-> n, text |-> <<>>]
NoValue == [kind |-> "null", n |-> 0, text |-> <<>>]

\* index.js:181-182: row.k1 ?? row.k2 ?? ... ?? null
Field(row, keys) ==
  LET hit == {i \in 1..Len(keys) : keys[i] \in DOMAIN row /\ row[keys[i]].kind # "null"}
  IN IF hit = {} THEN NoValue
     ELSE row[keys[CHOOSE i \in hit : \A j \in hit : i <= j]]

\* ToBoolean of a field value (index.js:188 and :204 `period ?`)
Truthy(v) ==
  CASE v.kind = "null" -> FALSE
    [] v.kind = "string" -> v.text # <<>>
    [] v.kind = "number" -> v.n # 0
    [] OTHER -> TRUE

\* index.js:204 String(period)
ToStr(v) == IF v.kind = "number" THEN Str(DecStr(v.n)) ELSE v

\* index.js:183 Number(valueRaw): on the model's alphabet a string is a
\* finite number exactly when it is an integer literal
ToNumber(v) ==
  CASE v.kind = "null" -> [ok |-> TRUE, val |-> 0]
    [] v.kind = "string" -> BigInt(v.text)
    [] OTHER -> [ok |-> TRUE, val |-> v.n]

\* index.js:92-106; null is returned as 0 (index.js:192 tests `!tISTms`)
periodISTtoMs(period) ==
  IF ToStr(period).kind = "stamp" THEN period.n * MsPerMinute ELSE 0

\* index.js:180-205, `now` being istNow()
mapRow(row, now) ==
  LET period == Field(row, <<"period", "issue", "issueNo", "gameNo", "no">>)
      valueRaw == Field(row, <<"number", "result", "resultNo", "openNum", "value", "num">>)
      value == ToNumber(valueRaw)
      ms == IF Truthy(period) THEN periodISTtoMs(period) ELSE 0
      floorMs == (now \div MsPerMinute) * MsPerMinute + IST_OFFSET_MINUTES * MsPerMinute
  IN IF ~value.ok THEN null
     ELSE [period |-> IF Truthy(period) THEN ToStr(period) ELSE NoValue,
           value |-> value.val,
           tISTms |-> IF ms # 0 THEN ms ELSE floorMs]

\* index.js:212 list.map(mapRow).filter(Boolean)
mapRows(list, now) ==
  LET mapped == [i \in 1..Len(list) |-> mapRow(list[i], now)]
      kept(e) == e # null
  IN SelectSeq(mapped, kept)

\* index.js:170-177
extractRows(body) ==
  IF ~body.json THEN <<>>
  ELSE IF body.shape \in {"array", "data.list", "data", "list", "rows"} THEN body.list
  ELSE <<>>

\* pruneOld without the filter
pruneNothing(ents, now) == ArraySort(ents, "byTimeDesc")

\* index.js:116-126, `now` being Date.now() + 330*60*1000
pruneOld(ents, now) ==
  LET cutoff == now - RETENTION_MINUTES * MsPerMinute
      kept(e) == e.tISTms >= cutoff
  IN ArraySort(SelectSeq(ents, kept), "byTimeDesc")

\* index.js:132 the key of the Map
keyOf(e) ==
  IF Truthy(e.period) THEN <<"p", e.period, 0, 0>>
  ELSE <<"t", NoValue, e.tISTms, e.value>>

RECURSIVE upsertAll(_, _)
\* index.js:131-137: byKey is the Map's values in insertion order
upsertAll(byKey, list) ==
  IF list = <<>> THEN byKey
  ELSE LET e == Head(list)
           at == {i \in 1..Len(byKey) : keyOf(byKey[i]) = keyOf(e)}
       IN IF at = {} THEN upsertAll(Append(byKey, e), Tail(list))
          ELSE LET i == CHOOSE j \in at : TRUE
               IN IF e.tISTms > byKey[i].tISTms
                  THEN upsertAll([byKey EXCEPT ![i] = e], Tail(list))
                  ELSE upsertAll(byKey, Tail(list))

\* upsertEntries without the call of pruneOld
upsertAndKeep(ents, newOnes, now) ==
  ArraySort(upsertAll(<<>>, newOnes \o ents), "byTimeDesc")

\* index.js:128-142
upsertEntries(ents, newOnes, now) ==
  pruneOld(ArraySort(upsertAll(<<>>, newOnes \o ents), "byTimeDesc"), now)

\* index.js:214-221
orderRows(mapped) ==
  IF \A i \in 1..Len(mapped) : mapped[i].period.kind = "stamp"
  THEN ArraySort(mapped, "byPeriodDesc")
  ELSE ArraySort(mapped, "byTimeDesc")

\* index.js:144-147
numericHistory(ents) == [i \in 1..Len(ents) |-> ents[i].value]

-----------------------------------------------------------------------------
(* The predictors, index.js:108-114 and :227-242.  A label is the sequence  *)
(* of the pieces of its template string; the characters outside ASCII are   *)
(* written by their code points.  Averages are kept as fractions.           *)

Glyph == [ellipsis |-> "U+2026", up |-> "U+2197", down |-> "U+2198",
          approx |-> "U+2248", to |-> "U+2192", bullet |-> "U+2022"]

\* String(d) of a digit
DigitStr(d) == <<"0", "1", "2", "3", "4", "5", "6", "7", "8", "9">>[d + 1]

\* index.js:109
take(a, n) == SubSeq(a, 1, IF n < Len(a) THEN n ELSE Len(a))

RECURSIVE sum(_)
\* index.js:110
sum(a) == IF a = <<>> THEN 0 ELSE Head(a) + sum(Tail(a))

\* index.js:111
avg(a) == IF a = <<>> THEN [num |-> 0, den |-> 1] ELSE [num |-> sum(a), den |-> Len(a)]

\* index.js:112
median(a) ==
  IF a = <<>> THEN [num |-> 0, den |-> 1]
  ELSE LET b == ArraySort(a, "ascending")
           m == Len(b) \div 2
       IN IF Len(b) % 2 = 1 THEN [num |-> b[m + 1], den |-> 1]
          ELSE [num |-> b[m] + b[m + 1], den |-> 2]

count(a, v) == Cardinality({i \in 1..Len(a) : a[i] = v})

\* index.js:113: the first value, in order of first occurrence, of the
\* greatest count
mode(a) ==
  IF a = <<>> THEN 0
  ELSE a[CHOOSE i \in 1..Len(a) :
           /\ \A j \in 1..Len(a) : count(a, a[j]) <= count(a, a[i])
           /\ \A j \in 1..(i - 1) : count(a, a[j]) < count(a, a[i])]

\* index.js:114
toDigit(v) == IF RESULT_RANGE_MAX > 9 THEN JsRem(v, 10) ELSE v

digits(a) == [i \in 1..Len(a) |-> toDigit(a[i])]

\* Math.round of a fraction with a positive denominator
round(q) == (2 * q.num + q.den) \div (2 * q.den)

\* whether Math.sqrt(avg(a.map(x=>(x-mu)*(x-mu)))), mu = avg(a), is below
\* (above) num/den: the variance is sqDev(a) / Len(a)^3
sqDev(a) == sum([i \in 1..Len(a) |-> (Len(a) * a[i] - sum(a)) * (Len(a) * a[i] - sum(a))])

devBelow(a, num, den) == den * den * sqDev(a) < num * num * Len(a) * Len(a) * Len(a)

devAbove(a, num, den) == den * den * sqDev(a) > num * num * Len(a) * Len(a) * Len(a)

Waiting == <<<<"Waiting", Glyph.ellipsis>>, "wait">>

\* index.js:229
p1(h) ==
  IF Len(h) < 10 THEN Waiting
  ELSE LET a == avg(digits(take(h, 5)))
           b == avg(digits(SubSeq(h, 6, 10)))
           up == a.num * b.den >= b.num * a.den
       IN <<<<"Bias ", IF up THEN Glyph.up ELSE Glyph.down, " next", Glyph.approx,
              DigitStr(round(a) % 10)>>,
            IF up THEN "good" ELSE "bad">>

\* index.js:230
p2(h) ==
  IF Len(h) < 10 THEN Waiting
  ELSE <<<<"Blend=", DigitStr((toDigit(h[1]) + toDigit(h[3]) + toDigit(h[9])) % 10)>>,
         "accent">>

\* p3 with the gate of p4
p3Gate4(h) ==
  IF Len(h) < 4 THEN Waiting
  ELSE LET last6 == digits(take(h, 6))
           m == mode(last6)
           c == count(last6, m)
       IN IF c >= 3 THEN <<<<"Stick with ", DigitStr(m)>>, "good">>
          ELSE <<<<"Shift to ", DigitStr((m + 1) % 10)>>, "warn">>

\* index.js:231
p3(h) ==
  IF Len(h) < 6 THEN Waiting
  ELSE LET last6 == digits(take(h, 6))
           m == mode(last6)
           c == count(last6, m)
       IN IF c >= 3 THEN <<<<"Stick with ", DigitStr(m)>>, "good">>
          ELSE <<<<"Shift to ", DigitStr((m + 1) % 10)>>, "warn">>

\* index.js:232
p4(h) ==
  IF Len(h) < 4 THEN Waiting
  ELSE <<<<"Momentum=", DigitStr(round(avg(digits(take(h, 4)))) % 10)>>, "accent">>

\* index.js:233
p5(h) ==
  IF Len(h) < 7 THEN Waiting
  ELSE <<<<"Median=", DigitStr(round(median(digits(take(h, 7)))) % 10)>>, "accent">>

\* index.js:234
p6(h) ==
  IF Len(h) < 8 THEN Waiting
  ELSE LET arr == digits(take(h, 8))
           swing == devAbove(arr, 5, 2)
           choose == IF swing THEN round([num |-> arr[1] + arr[2], den |-> 2]) % 10
                     ELSE round(avg(arr)) % 10
       IN <<<<IF swing THEN "Swing=" ELSE "Mean=", DigitStr(choose)>>,
            IF swing THEN "warn" ELSE "good">>

\* index.js:235
p7(h) ==
  IF Len(h) < 9 THEN Waiting
  ELSE LET a == digits(take(h, 9))
           odd == Cardinality({i \in 1..Len(a) : JsRem(a[i], 2) = 1})
           more == odd >= Len(a) - odd
       IN <<<<IF more THEN "Odd" ELSE "Even", " ", Glyph.to, " ",
              IF more THEN "1" ELSE "0">>,
            IF more THEN "good" ELSE "accent">>

\* index.js:236
p8(h) ==
  IF Len(h) < 12 THEN Waiting
  ELSE LET a == digits(take(h, 12))
           low == Cardinality({i \in 1..Len(a) : a[i] <= 4})
           high == Len(a) - low
       IN <<<<"Bias ", IF high > low THEN "High(5-9)" ELSE "Low(0-4)", " ", Glyph.to, " ",
              IF high > low THEN "7" ELSE "2">>,
            IF high > low THEN "bad" ELSE "good">>

\* index.js:237
p9(h) ==
  IF Len(h) < 10 THEN Waiting
  ELSE LET m == mode(digits(take(h, 10)))
       IN <<<<DigitStr(m), " or ", DigitStr((m + 9) % 10)>>, "accent">>

\* index.js:238
p10(h) ==
  IF Len(h) < 21 THEN <<<<"Waiting (need 21)">>, "wait">>
  ELSE LET t == digits(take(h, 21))
           num == sum([i \in 1..21 |-> t[i] * (22 - i)])
           den == sum([i \in 1..21 |-> 22 - i])
           pred == round([num |-> num, den |-> den]) % 10
           conf == IF devBelow(t, 2, 1) THEN "High"
                   ELSE IF devBelow(t, 7, 2) THEN "Mid" ELSE "Low"
       IN <<<<"W-Avg=", DigitStr(pred), " ", Glyph.bullet, " conf ", conf>>,
            IF devBelow(t, 2, 1) THEN "good"
            ELSE IF devBelow(t, 7, 2) THEN "warn" ELSE "bad">>

\* index.js:240-242
allPreds(h) ==
  <<p1(h), p2(h), p3(h), p4(h), p5(h), p6(h), p7(h), p8(h), p9(h), p10(h)>>

-----------------------------------------------------------------------------
(* The cron variant: upstream and actions *)

Row(p, v) == [period |-> p, number |-> v]

\* the number drawn in IST minute m
Drawn(m) == (m * m) % (RESULT_RANGE_MAX + 1)

\* the upstream's page at IST minute M: the BDG_PAGE_SIZE latest periods,
\* newest first
StampRows(M) == [i \in 1..BDG_PAGE_SIZE |-> Row(Stamp(M - i + 1), Num(Drawn(M - i + 1)))]

\* rows an upstream can also send: the period of this minute twice with two
\* numbers, a row under the key issueNumber (which mapRow does not read), a
\* period that is no twelve digits, a number that is none
OddRows(M) ==
  <<Row(Stamp(M), Num(1)),
    [issueNumber |-> Str(DecStr(M)), number |-> Str(DecStr(3))],
    Row(Str(<<Ch.a>>), Num(8)),
    Row(Stamp(M), Num(2)),
    Row(Stamp(M - 1), Str(<<Ch.a>>))>>

\* what the poll can resolve to at time `now`
CronResponses(now) ==
  LET M == now \div MsPerMinute
  IN {[status |-> 200, body |-> JsonBody(0, "data.list", StampRows(M))],
      [status |-> 200, body |-> JsonBody(0, "rows", StampRows(M))],
      [status |-> 200, body |-> JsonBody(0, "data.list", <<>>)],
      [status |-> 200, body |-> JsonBody(0, "none", StampRows(M))],
      [status |-> 200, body |-> JsonBody(0, "array", <<NullItem>>)],
      [status |-> 200, body |-> TextBody]}
     \cup (IF M < StartMinute + OddSpan
           THEN {[status |-> 200, body |-> JsonBody(0, "array", OddRows(M))]}
           ELSE {})

\* axios rejects: no answer within the timeout, or a status outside 2xx
\* (index.js:163-166)
CronRejections == {Rejected, [status |-> 500, body |-> TextBody]}

\* index.js:246 minuteKeyIST(), carried as the IST minute it writes
minuteKeyIST(now) == now \div MsPerMinute

\* index.js:68 lastMinuteKey = null
NoKey == 0 - 1

\* index.js:283: app.listen runs when the initial refresh has settled
Listening == primed /\ \A i \in 1..Len(cycles) : cycles[i].src # "boot"

\* the end of a call of refreshFromBDG and of the callback awaiting it
\* (index.js:249-254 and :282-283)
endRefresh(i, how, ents) ==
  /\ entries' = ents
  /\ cycles' = RemoveAt(cycles, i)
  /\ lastCall' = how
  /\ res' = NoRes
  /\ UNCHANGED <<variant, rawRecord, mappedEntry, oneMinHistory, historyCache, lastUpdate, isUpdating, clock, primed, timerOn,
                 lastMinuteKey>>

\* index.js:245 and :281-282: the module body runs; cron.schedule registers
\* the task and the start IIFE calls refreshFromBDG
Start ==
  /\ variant = "cron" /\ ~primed
  /\ primed' = TRUE
  /\ cycles' = <<[src |-> "boot", pc |-> "http", at |-> clock]>>
  /\ lastCall' = "started"
  /\ res' = NoRes /\ fetched' = NoFetch
  /\ UNCHANGED <<variant, rawRecord, mappedEntry, oneMinHistory, historyCache, lastUpdate, isUpdating, clock, timerOn,
                 entries, lastMinuteKey>>

\* the test of index.js:247 never finding the key of the last poll
neverSameKey(key, last) == FALSE

\* index.js:247 key === lastMinuteKey
sameKey(key, last) == key = last

\* index.js:245-250: the cron task fires at second 5 of a minute k minutes
\* on, or once more at the second it has just fired at (a scheduler that
\* fires twice, a system clock set back).  A poll settles within
\* FETCH_TIMEOUT_MS of its start, so only a poll younger than that can
\* still be in flight.
CronTick(k) ==
  /\ variant = "cron" /\ primed
  /\ LET fire == ((clock \div MsPerMinute) + k) * MsPerMinute + CRON_SECOND_MS
         key == minuteKeyIST(fire)
     IN /\ fire >= clock
        /\ key <= MaxMinute
        /\ \A i \in 1..Len(cycles) : fire - cycles[i].at < FETCH_TIMEOUT_MS
        /\ clock' = fire
        /\ IF sameKey(key, lastMinuteKey)
           THEN /\ lastCall' = "skipped"
                /\ UNCHANGED <<lastMinuteKey, cycles>>
           ELSE /\ lastMinuteKey' = key
                /\ cycles' = Append(cycles, [src |-> "cron", pc |-> "http", at |-> fire])
                /\ lastCall' = "started"
  /\ res' = NoRes /\ fetched' = NoFetch
  /\ UNCHANGED <<variant, rawRecord, mappedEntry, oneMinHistory, historyCache, lastUpdate, isUpdating, primed, timerOn, entries>>

\* index.js:207-224: fetchBdgList settles and refreshFromBDG runs to its end
RefreshDone(i) ==
  /\ variant = "cron"
  /\ \E r \in CronResponses(clock) \cup CronRejections :
       /\ fetched' = Seen(r)
       /\ LET list == extractRows(r.body)
          IN IF r \in CronRejections THEN endRefresh(i, "threw", entries)
             ELSE IF list = <<>> THEN endRefresh(i, "nodata", entries)
             ELSE IF MapThrows(list) THEN endRefresh(i, "threw", entries)
             ELSE endRefresh(i, "merged",
                             upsertEntries(entries, orderRows(mapRows(list, clock)), clock))

\* index.js:258-266: GET /api/snapshot
GetSnapshot ==
  /\ variant = "cron" /\ Listening
  /\ res' = [kind |-> "snapshot", history |-> numericHistory(entries),
             predictions |-> allPreds(numericHistory(entries))]
  /\ lastCall' = "none" /\ fetched' = NoFetch
  /\ UNCHANGED <<variant, rawRecord, mappedEntry, oneMinHistory, historyCache, lastUpdate, isUpdating, clock, cycles, primed,
                 timerOn, entries, lastMinuteKey>>

\* index.js:268-273: GET /api/recent
GetRecent ==
  /\ variant = "cron" /\ Listening
  /\ res' = [kind |-> "recent", entries |-> entries]
  /\ lastCall' = "none" /\ fetched' = NoFetch
  /\ UNCHANGED <<variant, rawRecord, mappedEntry, oneMinHistory, historyCache, lastUpdate, isUpdating, clock, cycles, primed,
                 timerOn, entries, lastMinuteKey>>

-----------------------------------------------------------------------------
(* The history fragment, index.js:1-28: an array of { data, timestamp }    *)
(* kept by addNewHistoryEntry to the entries of the last 30 minutes and to *)
(* the 21 latest.  Its clock is Date.now() in milliseconds.                *)

\* index.js:11 the age, in milliseconds, after which an entry is removed
HISTORY_MAX_AGE_MS == 1800000

\* index.js:15-16 the number of entries kept
HISTORY_KEEP == 21

\* calls of addNewHistoryEntry in a run; the entry given to the n-th is n
MaxInserts == 23

\* how far Date.now() goes, in minutes, and by how many minutes at once
MaxFragmentMinute == 50
FragmentJumps == {20, 30}

\* addNewHistoryEntry with push in the place of unshift
addNewHistoryEntryLast(hist, newEntry, now) ==
  LET pushed == hist \o <<[data |-> newEntry, timestamp |-> now]>>
      fresh(entry) == now - entry.timestamp <= HISTORY_MAX_AGE_MS
      kept == SelectSeq(pushed, fresh)
  IN IF Len(kept) > HISTORY_KEEP THEN SubSeq(kept, 1, HISTORY_KEEP) ELSE kept

\* index.js:4-18, `now` being Date.now()
addNewHistoryEntry(hist, newEntry, now) ==
  LET pushed == <<[data |-> newEntry, timestamp |-> now]>> \o hist
      fresh(entry) == now - entry.timestamp <= HISTORY_MAX_AGE_MS
      kept == SelectSeq(pushed, fresh)
  IN IF Len(kept) > HISTORY_KEEP THEN SubSeq(kept, 1, HISTORY_KEEP) ELSE kept

\* index.js:21-23
getHistoryData(hist) == [i \in 1..Len(hist) |-> hist[i].data]

\* the entries given to addNewHistoryEntry so far
Inserted == IF oneMinHistory = <<>> THEN 0 ELSE Head(oneMinHistory).data

\* index.js:4-18: a call of addNewHistoryEntry
AddNewHistoryEntry ==
  /\ variant = "fragment" /\ Inserted < MaxInserts
  /\ oneMinHistory' = addNewHistoryEntry(oneMinHistory, Inserted + 1, clock)
  /\ lastCall' = "added"
  /\ res' = [kind |-> "historyData", data |-> getHistoryData(oneMinHistory')]
  /\ UNCHANGED <<variant, rawRecord, mappedEntry, historyCache, lastUpdate, isUpdating,
                 clock, cycles, primed, timerOn, fetched, entries, lastMinuteKey>>

\* time passes between two calls
Tock(k) ==
  /\ variant = "fragment"
  /\ clock + k * MsPerMinute <= MaxFragmentMinute * MsPerMinute
  /\ clock' = clock + k * MsPerMinute
  /\ lastCall' = "none" /\ res' = NoRes
  /\ UNCHANGED <<variant, rawRecord, mappedEntry, oneMinHistory, historyCache, lastUpdate,
                 isUpdating, cycles, primed, timerOn, fetched, entries, lastMinuteKey>>

Init ==
  /\ variant \in {"v1", "v2", "cron", "fragment"}
  /\ historyCache = <<>>
  /\ lastUpdate = 0
  /\ isUpdating = FALSE
  /\ clock = CASE variant = "cron" -> StartMinute * MsPerMinute
                [] variant = "fragment" -> 0
                [] OTHER -> 1
  /\ cycles = <<>>
  /\ primed = FALSE
  /\ timerOn = FALSE
  /\ lastCall = "none"
  /\ fetched = NoFetch
  /\ res = NoRes
  /\ entries = <<>>
  /\ lastMinuteKey = NoKey
  /\ rawRecord = NoItem
  /\ mappedEntry = NotMapped
  /\ oneMinHistory = <<>>

Next ==
  \/ Boot
  \/ Tick
  \/ \E i \in 1..Len(cycles) : HttpDone(i)
  \/ \E i \in 1..Len(cycles) : PupDone(i)
  \/ \E i \in 1..Len(cycles) : HttpDoneV1(i)
  \/ \E i \in 1..Len(cycles) : PupDoneV1(i)
  \/ GetHistoryV1
  \/ GetHealthV1
  \/ GetHistory
  \/ GetPredictions
  \/ Advance
  \/ Start
  \/ \E k \in TickJumps : CronTick(k)
  \/ \E i \in 1..Len(cycles) : RefreshDone(i)
  \/ GetSnapshot
  \/ GetRecent
  \/ AddNewHistoryEntry
  \/ \E k \in FragmentJumps : Tock(k)

Spec == Init /\ [][Next]_vars

\* What the event loop and the libraries guarantee to happen.  The boot
\* code runs; an installed interval fires (part_002:200, :447); axios
\* rejects a poll that is not answered within its timeout (index.js:165).
\* The Puppeteer fallback is taken to settle.  The fetch of node-fetch v2 is
\* given no timeout and no abort signal (part_002:87-91, :349): nothing
\* makes it settle when the upstream does not answer, so no fairness is
\* stated for HttpDone and HttpDoneV1.
FairSpec ==
  /\ Spec
  /\ WF_vars(Boot)
  /\ WF_vars(Tick)
  /\ WF_vars(\E i \in 1..Len(cycles) : PupDone(i))
  /\ WF_vars(\E i \in 1..Len(cycles) : PupDoneV1(i))
  /\ WF_vars(Start)
  /\ WF_vars(\E i \in 1..Len(cycles) : RefreshDone(i))

-----------------------------------------------------------------------------
(* The mappers called on one record *)

\* what an upstream record can carry as its identity and as its value
\* (undefined: the key is missing)
Identities ==
  {undefined, <<>>, <<Ch.sp>>, DecStr(123), <<Ch.sp>> \o DecStr(21) \o <<Ch.sp>>,
   <<Ch.zero + 1, Ch.a>>, DecStr(0)}

RawValues ==
  {undefined, <<>>, DecStr(7), DecStr(104), <<Ch.minus>> \o DecStr(13), <<Ch.a>>,
   <<Ch.zero + 5, Ch.a>>, <<Ch.sp>> \o DecStr(8), <<Ch.minus>>, DecStr(0)}

\* keys the identity and the value come under
IdentityKeys == {"issueNumber", "issue", "period", "Issue"}
ValueKeys == {"number", "result", "no"}

\* the record {[ik]: id, [vk]: val}, without the key of an undefined value
RawRecord(ik, id, vk, val) ==
  [k \in (IF id = undefined THEN {} ELSE {ik}) \cup (IF val = undefined THEN {} ELSE {vk})
     |-> IF k = ik THEN id ELSE val]

\* records that carry two aliases at once
AliasedRecords ==
  {[issueNumber |-> <<>>, issue |-> DecStr(5), number |-> DecStr(7)],
   [issue |-> DecStr(9), period |-> DecStr(8), result |-> DecStr(6), number |-> DecStr(3)]}

RawRecords ==
  {RawRecord(ik, id, vk, val) : ik \in IdentityKeys, id \in Identities,
                                vk \in ValueKeys, val \in RawValues}
    \cup AliasedRecords

\* the module is loaded and nothing has run; one record is at hand
InitMapper ==
  /\ variant \in {"v1", "v2"}
  /\ rawRecord \in RawRecords
  /\ mappedEntry = NotMapped
  /\ historyCache = <<>> /\ lastUpdate = 0 /\ isUpdating = FALSE /\ clock = 1
  /\ cycles = <<>> /\ primed = FALSE /\ timerOn = FALSE /\ lastCall = "none"
  /\ fetched = NoFetch /\ res = NoRes /\ entries = <<>> /\ lastMinuteKey = NoKey
  /\ oneMinHistory = <<>>

\* part_002:274-286: mapItem(rawRecord) returns
CallMapItem ==
  /\ variant = "v2" /\ mappedEntry = NotMapped
  /\ mappedEntry' = mapItem(rawRecord)
  /\ UNCHANGED <<variant, rawRecord, oneMinHistory, historyCache, lastUpdate, isUpdating,
                 clock, cycles, primed, timerOn, lastCall, fetched, res, entries,
                 lastMinuteKey>>

\* part_002:55-63: the callback of list.map in mapList returns
CallMapList ==
  /\ variant = "v1" /\ mappedEntry = NotMapped
  /\ mappedEntry' = mapListItem(rawRecord)
  /\ UNCHANGED <<variant, rawRecord, oneMinHistory, historyCache, lastUpdate, isUpdating,
                 clock, cycles, primed, timerOn, lastCall, fetched, res, entries,
                 lastMinuteKey>>

NextMapper ==
  \/ CallMapItem
  \/ CallMapList

SpecMapper == InitMapper /\ [][NextMapper]_vars

-----------------------------------------------------------------------------
(* Vocabulary of the claims *)

Range(f) == {f[i] : i \in DOMAIN f}

\* every entry the mappers make of the records of the upstream's pages
MappedEntries == UNION {Range(mapAndFilter(p)) : p \in {q \in Pages : ~MapThrows(q)}}

MappedEntriesV1 == UNION {Range(mapList(p)) : p \in {q \in PagesV1 : ~MapThrows(q)}}

HasPeriod(cache, period) == \E i \in 1..Len(cache) : cache[i].period = period

NoDuplicatePeriods(cache) ==
  \A i, j \in 1..Len(cache) : i # j => cache[i].period # cache[j].period

AllIntegerPeriods(cache) == \A i \in 1..Len(cache) : BigInt(cache[i].period).ok

\* the numeric value of the period at position i
PeriodValue(cache, i) == BigInt(cache[i].period).val

\* no entry stands before one the comparator of the merge puts before it
OrderedByComparator(cache) ==
  \A i \in 1..(Len(cache) - 1) : comparePeriods(cache[i], cache[i + 1]) <= 0

\* what a completed merge leaves: unique periods, in sort order, capped
FullyMerged(cache) ==
  /\ NoDuplicatePeriods(cache)
  /\ Len(cache) <= CACHE_SIZE
  /\ OrderedByComparator(cache)

-----------------------------------------------------------------------------
(* Claims *)

\* merging any mapped entry twice into the cache of this state leaves what
\* merging it once leaves, and merging an entry whose period is cached
\* leaves the cache as it is
MergeTwiceIsMergeOnce ==
  /\ variant = "v2" =>
       \A e \in MappedEntries :
         LET once == mergeIntoCache(historyCache, <<e>>).cache
         IN /\ mergeIntoCache(once, <<e>>).cache = once
            /\ HasPeriod(historyCache, e.period) => once = historyCache
  /\ variant = "v1" =>
       \A e \in MappedEntriesV1 :
         LET once == mergeIntoCacheV1(historyCache, <<e>>).cache
         IN /\ mergeIntoCacheV1(once, <<e>>).cache = once
            /\ HasPeriod(historyCache, e.period) => once = historyCache

\* C1: mergeIntoCache is idempotent on the cache.  For every reachable cache
\* and every mapped entry e, merging <<e>> twice leaves the same sequence as
\* merging it once, and merging an entry whose period is already cached
\* leaves the sequence as it is (both servers).  A cache is reached either
\* empty or by the step that ends a cycle in mergeIntoCache (first
\* conjunct); it is examined in the states it is reached in (second).
C1_MergeIdempotent ==
  /\ [][historyCache' # historyCache => lastCall' \in {"merged", "threw"}]_vars
  /\ []((historyCache = <<>> \/ lastCall \in {"merged", "threw"}) => MergeTwiceIsMergeOnce)

\* C1 witness: a full cache of v2 that holds "07" next to the issues and is
\* re-merged with an entry it already holds
W1_FullCacheRemerged ==
  /\ variant = "v2"
  /\ Len(historyCache) = CACHE_SIZE
  /\ HasPeriod(historyCache, <<Ch.zero, Ch.zero + 7>>)
  /\ lastCall = "merged"

\* C2 as claimed: in v2 every adjacent pair of the cache is strictly
\* descending by the numeric value of the period.
C2_StrictlyDescendingNumeric ==
  variant = "v2" =>
    \A i \in 1..(Len(historyCache) - 1) :
      /\ BigInt(historyCache[i].period).ok
      /\ BigInt(historyCache[i + 1].period).ok
      /\ PeriodValue(historyCache, i) > PeriodValue(historyCache, i + 1)

\* C2 amended: in v2, while every cached period is an integer string, the
\* cache is sorted descending by numeric value, and two entries of equal
\* value are different strings (such as "7" and "07": both are kept).
C2_DescendingWhereNumeric ==
  (variant = "v2" /\ AllIntegerPeriods(historyCache)) =>
    \A i, j \in 1..Len(historyCache) :
      i < j =>
        \/ PeriodValue(historyCache, i) > PeriodValue(historyCache, j)
        \/ /\ PeriodValue(historyCache, i) = PeriodValue(historyCache, j)
           /\ historyCache[i].period # historyCache[j].period

\* C2 witness: "7" and "07" are both cached, among integer periods only
W2_SevenAndZeroSeven ==
  /\ variant = "v2"
  /\ AllIntegerPeriods(historyCache)
  /\ HasPeriod(historyCache, <<Ch.zero + 7>>)
  /\ HasPeriod(historyCache, <<Ch.zero, Ch.zero + 7>>)
  /\ Len(historyCache) = CACHE_SIZE

\* C3 as claimed: in every reachable state of the server the cache holds at
\* most 21 entries.
C3_CacheWithinCapacity == IsServer => Len(historyCache) <= CACHE_SIZE

\* C5: update cycles are mutually exclusive.  At most one execution of
\* updateOnce is past the isUpdating check, and a call that finds a cycle in
\* flight changes nothing: no fetch, no merge, nothing queued.
C5_MutualExclusion ==
  /\ [](IsServer => Len(cycles) <= 1)
  /\ [][(IsServer /\ lastCall' = "skipped") =>
          /\ isUpdating
          /\ UNCHANGED <<historyCache, lastUpdate, isUpdating, cycles, timerOn>>
          /\ fetched' = NoFetch]_vars

\* C5 witness: in v1 the interval fired while the cycle that GET /api/history
\* started was in flight, and was skipped
W5_TickSkipped ==
  /\ variant = "v1"
  /\ lastCall = "skipped"
  /\ Len(cycles) = 1
  /\ cycles[1].src = "history"

\* C7: isUpdating is true exactly while a cycle is executing; it is false
\* after every exit of updateOnce (merge, no data, exception).
C7_FlagOnlyWhileRunning ==
  IsServer =>
    /\ isUpdating = (cycles # <<>>)
    /\ lastCall \in {"merged", "nodata", "threw"} => ~isUpdating

\* C7 witness: a cycle has just ended by an exception
W7_EndedByException ==
  IsServer /\ lastCall = "threw" /\ ~isUpdating /\ Len(historyCache) > 0

\* C8: reads of v2 see only fully merged caches.  A response carries the
\* cache of that moment, which is deduplicated, sorted and capped, and the
\* cache does not change while a cycle stays in flight.
C8_ReadsSeeMergedCache ==
  /\ []((variant = "v2" /\ res.kind \in {"history", "predictions"}) =>
          /\ FullyMerged(historyCache)
          /\ res.kind = "history" => res.list = historyCache)
  /\ [][(variant = "v2" /\ cycles # <<>> /\ cycles' # <<>>) =>
          historyCache' = historyCache]_vars

\* C8 witness: GET /api/history is answered from a full cache while a cycle
\* awaits its fetch
W8_ReadDuringCycle ==
  /\ variant = "v2"
  /\ res.kind = "history"
  /\ cycles # <<>>
  /\ Len(res.list) = CACHE_SIZE

\* C10: each block of computeAllPredictions is not ready (WAIT, 0, 0) exactly
\* when the cache has fewer entries than its window w; otherwise big counts
\* the isBig entries among the first w, small = w - big, and the prediction
\* is BIG if big >= small, else SMALL.
C10_PredictionBlocks ==
  (variant = "v2" /\ res.kind = "predictions") =>
    \A idx \in 1..Len(WINDOWS) :
      LET w == WINDOWS[idx]
          p == res.predictions[idx]
      IN /\ p.window = w
         /\ p.ready = ~(Len(historyCache) < w)
         /\ IF Len(historyCache) < w
            THEN p.prediction = "WAIT" /\ p.big = 0 /\ p.small = 0
            ELSE LET b == Cardinality({i \in 1..w : historyCache[i].isBig})
                 IN /\ p.big = b
                    /\ p.small = w - b
                    /\ p.prediction = IF b >= w - b THEN "BIG" ELSE "SMALL"

\* C10 witness: one response holds a BIG block, a SMALL block and a block
\* that is not ready
W10_MixedBlocks ==
  /\ variant = "v2"
  /\ res.kind = "predictions"
  /\ \E a, b, c \in 1..Len(WINDOWS) :
       /\ res.predictions[a].prediction = "BIG"
       /\ res.predictions[b].prediction = "SMALL"
       /\ ~res.predictions[c].ready

\* C4: in every reachable state no two entries of the cache share a period
\* string, whatever was merged, a batch holding one period twice included
\* (historyCache of the servers; the entries of the cron variant that have
\* a period).
C4_NoDuplicatePeriods ==
  /\ IsServer => NoDuplicatePeriods(historyCache)
  /\ variant = "cron" =>
       \A i, j \in 1..Len(entries) :
         (i # j /\ entries[i].period.kind # "null") =>
           entries[i].period # entries[j].period

\* C4 witness: v2 merged the page that holds " 24 " and "24"; the cache
\* holds the period once, with the number of the first
W4_PeriodTwiceInBatch ==
  /\ variant = "v2"
  /\ lastCall = "merged"
  /\ fetched.records = 2
  /\ \E i \in 1..Len(historyCache) :
       historyCache[i].period = DecStr(MaxIssue) /\ historyCache[i].number = 0

\* what C6 counts as a fetch without usable data
NoUsableData(f) == f.rejected \/ f.status # 200 \/ ~f.json \/ f.records = 0

\* C6 as claimed: a cycle that ends without usable data (the fetch raised,
\* the status is not 200, the body is no JSON, or the record list is empty)
\* leaves the cache and lastUpdate as they were.
C6_FailedCycleChangesNothing ==
  [][(Len(cycles') < Len(cycles) /\ NoUsableData(fetched')) =>
       UNCHANGED <<historyCache, lastUpdate, entries>>]_vars

FirstKey(rec, keys) ==
  LET has == {i \in 1..Len(keys) : keys[i] \in DOMAIN rec}
  IN IF has = {} THEN 0 ELSE CHOOSE i \in has : \A j \in has : i <= j

\* the identity of a record as a string: what its first identity key holds,
\* without the white space around it; "" when it has no identity key
IdentityOf(rec) ==
  LET keys == <<"issueNumber", "issue", "period", "issue_no", "IssueNumber", "Issue">>
      k == FirstKey(rec, keys)
  IN IF k = 0 THEN <<>> ELSE Trim(rec[keys[k]])

\* the text of a record's value field: what its first value key holds, ""
\* when it has none
ValueOf(rec) ==
  LET keys == <<"number", "result", "openNumber", "open_no", "No", "no">>
      k == FirstKey(rec, keys)
  IN IF k = 0 THEN <<>> ELSE rec[keys[k]]

\* how many code units of s, from the first on, satisfy the test `digit`
\* (else: are spaces)
LeadingRun(s, digit) ==
  CHOOSE k \in 0..Len(s) :
    /\ \A i \in 1..k : IF digit THEN IsDigit(s[i]) ELSE s[i] = Ch.sp
    /\ k < Len(s) => IF digit THEN ~IsDigit(s[k + 1]) ELSE s[k + 1] # Ch.sp

\* the digits an integer parse of the text reads: after leading white space
\* and an optional '-', the longest run of decimal digits
ParsedDigits(text) ==
  LET t == SubSeq(text, LeadingRun(text, FALSE) + 1, Len(text))
      u == IF t # <<>> /\ Head(t) = Ch.minus THEN Tail(t) ELSE t
  IN SubSeq(u, 1, LeadingRun(u, TRUE))

\* C11: mapItem returns null exactly when the record's identity is empty or
\* missing or its value field does not parse to an integer (no digit is
\* read); otherwise it returns the entry whose period is the identity
\* string, whose number is |parsed value| mod 10, with isBig = number >= 5
\* and the label that goes with it.  Value 104 gives number 4 and isBig
\* false; {issueNumber: "123", number: "7"} gives period "123", number 7,
\* isBig true, label "BIG".
C11_MapItemContract ==
  (variant = "v2" /\ mappedEntry # NotMapped) =>
    LET id == IdentityOf(rawRecord)
        ds == ParsedDigits(ValueOf(rawRecord))
        number == DigitsValue(ds) % 10
    IN /\ mappedEntry = null <=> (id = <<>> \/ ds = <<>>)
       /\ mappedEntry # null =>
            mappedEntry = [period |-> id, number |-> number, isBig |-> number >= 5,
                           label |-> IF number >= 5 THEN "BIG" ELSE "SMALL"]
       /\ (ValueOf(rawRecord) = DecStr(104) /\ id # <<>>) =>
            mappedEntry.number = 4 /\ ~mappedEntry.isBig
       /\ rawRecord = Item(DecStr(123), DecStr(7)) =>
            mappedEntry = [period |-> DecStr(123), number |-> 7, isBig |-> TRUE,
                           label |-> "BIG"]

\* C11 witness: mapItem has returned for a record whose value is negative
\* and whose identity has white space around it
W11_NegativeValueMapped ==
  /\ variant = "v2"
  /\ rawRecord = [issue |-> <<Ch.sp>> \o DecStr(21) \o <<Ch.sp>>,
                  result |-> <<Ch.minus>> \o DecStr(13)]
  /\ mappedEntry = [period |-> DecStr(21), number |-> 3, isBig |-> FALSE, label |-> "SMALL"]

\* an entry of the data model: a non-empty string as its period, an integer
\* of 0..9 as its number, isBig and label derived from the number
Canonical(e) ==
  /\ e.period # undefined /\ e.period # <<>>
  /\ e.number \in 0..9
  /\ e.isBig = (e.number >= 5)
  /\ e.label = (IF e.isBig THEN "BIG" ELSE "SMALL")

\* C12: every entry in the cache of a server is canonical, whatever records
\* the upstream sent (a negative, non-numeric or missing value, a missing
\* issue number): its period is a non-empty string, its number an integer in
\* 0..9, isBig is true exactly when number >= 5, and label is "BIG" exactly
\* when isBig is true, else "SMALL".
C12_CachedEntriesCanonical ==
  IsServer => \A i \in 1..Len(historyCache) : Canonical(historyCache[i])

\* a cache that a merge has sorted and capped: at most CACHE_SIZE entries,
\* and in descending numeric order when all its periods are integers
SortedAndCapped(cache) ==
  /\ Len(cache) <= CACHE_SIZE
  /\ AllIntegerPeriods(cache) =>
       \A i \in 1..(Len(cache) - 1) : PeriodValue(cache, i) >= PeriodValue(cache, i + 1)

\* C13: mergeIntoCache never raises, whatever the mapped entries are (none,
\* all duplicates, periods that are no decimal integer strings).  So a cycle
\* that ends by an exception has raised before the merge began (in the fetch
\* or in the mapper) and has left the cache as it was, and the cache is
\* never left with entries appended but not sorted and capped.
C13_MergeNeverRaises ==
  /\ [][(IsServer /\ lastCall' = "threw") => historyCache' = historyCache]_vars
  /\ [](IsServer => SortedAndCapped(historyCache))

\* the batches of mapped entries whose periods are all integers
NumericBatches ==
  {b \in {mapAndFilter(p) : p \in {q \in Pages : ~MapThrows(q)}} : AllIntegerPeriods(b)}

\* the periods of the entries of a sequence
Periods(seq) == {seq[i].period : i \in 1..Len(seq)}

\* merging the batch into the cache `old` keeps the CACHE_SIZE numerically
\* largest of the distinct periods of old and batch (all of them when they
\* are no more), one entry each, the largest of them at the head
KeepsLargest(old, batch) ==
  LET new == mergeIntoCache(old, batch).cache
      union == Periods(old) \cup Periods(batch)
      kept == Periods(new)
  IN /\ kept \subseteq union
     /\ Cardinality(kept) = Len(new)
     /\ Len(new) = (IF Cardinality(union) > CACHE_SIZE THEN CACHE_SIZE
                                                        ELSE Cardinality(union))
     /\ \A p \in kept : \A q \in union \ kept : BigInt(p).val >= BigInt(q).val
     /\ \A q \in union : BigInt(new[1].period).val >= BigInt(q).val

\* C14: capacity eviction drops only the smallest periods.  Merging a batch
\* of integer periods into a reachable cache of integer periods (v2) leaves
\* exactly the 21 numerically largest distinct periods of cache and batch,
\* or all of them when they are 21 or fewer, the largest at the head.
C14_EvictsSmallestPeriods ==
  (variant = "v2" /\ AllIntegerPeriods(historyCache)) =>
    \A b \in NumericBatches : KeepsLargest(historyCache, b)

\* C14 witness: a full cache of integer periods from which a merge has
\* evicted issue "1": it holds "07", "7" and the newest issue
W14_SmallestEvicted ==
  /\ variant = "v2" /\ lastCall = "merged"
  /\ Len(historyCache) = CACHE_SIZE /\ AllIntegerPeriods(historyCache)
  /\ HasPeriod(historyCache, <<Ch.zero, Ch.zero + 7>>)
  /\ HasPeriod(historyCache, DecStr(MaxIssue))
  /\ ~HasPeriod(historyCache, DecStr(1))

\* C15: a prune pass removes every expired entry, however few entries there
\* are.  After pruneOld (run at the end of a merging poll) no entry of the
\* cron server has a timestamp older than RETENTION_MINUTES before the time
\* of the pass, and after addNewHistoryEntry no entry of the history array
\* has a timestamp more than 30 minutes before the time of the call, also
\* when fewer than 21 entries are held.
C15_PrunePassRemovesExpired ==
  /\ (variant = "cron" /\ lastCall = "merged") =>
       \A i \in 1..Len(entries) :
         entries[i].tISTms >= clock - RETENTION_MINUTES * MsPerMinute
  /\ (variant = "fragment" /\ lastCall = "added") =>
       \A i \in 1..Len(oneMinHistory) :
         clock - oneMinHistory[i].timestamp <= 30 * MsPerMinute

\* C15 witness: addNewHistoryEntry has returned with fewer than 21 entries
\* held, entries older than 30 minutes having been removed (more entries
\* were given than are held) and one aged 30 minutes exactly being kept
W15_ExpiredRemovedBelowCapacity ==
  /\ variant = "fragment" /\ lastCall = "added"
  /\ Len(oneMinHistory) < HISTORY_KEEP
  /\ Inserted > Len(oneMinHistory)
  /\ clock - oneMinHistory[Len(oneMinHistory)].timestamp = 30 * MsPerMinute

\* C16: a started update cycle always eventually finishes and clears the
\* in-flight flag, whatever the upstream does, so that after a skipped tick
\* a later tick can start a cycle: whenever isUpdating is true it is false
\* at some later time.
C16_CycleEventuallyEnds ==
  (IsServer /\ isUpdating) ~> ~isUpdating

\* C17: a read (history, predictions, health) is answered from the state in
\* memory without waiting for an outbound fetch, also when the cache is
\* empty: no read handler is ever suspended on a cycle it started, waiting
\* for that cycle's fetch to settle before it responds.
C17_ReadsNeverAwaitFetch ==
  IsServer => \A i \in 1..Len(cycles) : cycles[i].src # "history"

\* C18: a fetcher reports a network failure or a timeout of the upstream as
\* a returned value, with the sentinel status 599 and a description of the
\* error; it does not raise to the cycle that called it.  No awaited fetch
\* ever settles by rejecting.
C18_FailureIsReturnedValue ==
  ~fetched.rejected

\* every entry of `old` whose period is still in `new` is there as it was
SamePeriodSameEntry(old, new) ==
  \A i \in 1..Len(old) : \A j \in 1..Len(new) :
    new[j].period = old[i].period => new[j] = old[i]

\* C19: a cached entry is immutable.  Whatever a later cycle carries for a
\* period that is in the cache (another number, another timestamp), the
\* entry cached for that period stays as it is for as long as the period
\* stays in the cache: in the caches of the servers (mergeIntoCache) and in
\* the entries of the cron variant (upsertEntries).
C19_CachedEntryImmutable ==
  [][/\ SamePeriodSameEntry(historyCache, historyCache')
     /\ SamePeriodSameEntry(SelectSeq(entries, LAMBDA e : Truthy(e.period)), entries')]_vars

\* the batches the mappers make of the upstream's pages
Batches == {mapAndFilter(p) : p \in {q \in Pages : ~MapThrows(q)}}

BatchesV1 == {mapList(p) : p \in {q \in PagesV1 : ~MapThrows(q)}}

\* C20: mergeIntoCache called with an empty batch, or with a batch whose
\* periods are all in the cache already, is a complete no-op: for every
\* reachable cache and every such batch, the call leaves the cache sequence
\* as it is and does not set lastUpdate.
C20_NothingNewIsNoOp ==
  /\ variant = "v2" =>
       \A b \in Batches \cup {<<>>} :
         Periods(b) \subseteq Periods(historyCache) =>
           /\ mergeIntoCache(historyCache, b).cache = historyCache
           /\ ~mergeIntoCache(historyCache, b).stamped
  /\ variant = "v1" =>
       \A b \in BatchesV1 \cup {<<>>} :
         Periods(b) \subseteq Periods(historyCache) =>
           /\ mergeIntoCacheV1(historyCache, b).cache = historyCache
           /\ ~mergeIntoCacheV1(historyCache, b).stamped

\* every entry stands before the entries the comparator does not put before
\* it: no pair of positions i < j has the entry at i compare below the one at j
PairwiseOrdered(cache) ==
  \A i, j \in 1..Len(cache) : i < j => comparePeriods(cache[i], cache[j]) <= 0

\* the comparator agrees with itself on the entries at a, b and c of arr
TransitiveAt(arr, a, b, c) ==
  (comparePeriods(arr[a], arr[b]) <= 0 /\ comparePeriods(arr[b], arr[c]) <= 0)
    => comparePeriods(arr[a], arr[c]) <= 0

\* the comparator is transitive on the entries of arr.  Three integer
\* strings are compared by value, which is transitive, so the triples looked
\* at are those that hold a period that is no integer string, in any place.
ConsistentOn(arr) ==
  \A i \in {n \in 1..Len(arr) : ~BigInt(arr[n].period).ok} :
    \A j, k \in 1..Len(arr) :
      TransitiveAt(arr, i, j, k) /\ TransitiveAt(arr, j, i, k) /\ TransitiveAt(arr, j, k, i)

\* integer strings and other strings are both among the periods
Mixed(cache) ==
  /\ \E i \in 1..Len(cache) : BigInt(cache[i].period).ok
  /\ \E i \in 1..Len(cache) : ~BigInt(cache[i].period).ok

\* C21 as claimed: in v2 the cache a merge leaves is totally ordered by the
\* merge comparator, also with periods that mix integer strings and other
\* strings: no entry compares below an entry that stands after it.
C21_TotallyOrderedWhenMixed ==
  (variant = "v2" /\ lastCall = "merged") => PairwiseOrdered(historyCache)

\* the cache of this state is empty or has just been left by a merge
JustMerged == historyCache = <<>> \/ lastCall \in {"merged", "threw"}

\* C21 amended: for every reachable cache of v2 and every batch the mapper
\* makes of a page, if the entries the merge sorts (the cache and the pushed
\* entries) mix integer strings with other strings and the comparator is
\* transitive on them, the cache the merge leaves is totally ordered by the
\* comparator.  A cache is reached empty or by the step that ends a cycle
\* in mergeIntoCache (first conjunct) and is examined where it is reached.
C21_OrderedWhereTransitive ==
  /\ [][historyCache' # historyCache => lastCall' \in {"merged", "threw"}]_vars
  /\ []((variant = "v2" /\ JustMerged) =>
          \A b \in Batches :
            (Mixed(pushUnseen(historyCache, b)) /\ ConsistentOn(pushUnseen(historyCache, b))) =>
              PairwiseOrdered(mergeIntoCache(historyCache, b).cache))

\* C21 witness: a merge has left a cache that mixes "1a" with integer
\* strings the comparator orders consistently with it, in total order
W21_MixedAndOrdered ==
  /\ variant = "v2"
  /\ lastCall = "merged"
  /\ Mixed(historyCache)
  /\ Len(historyCache) > 3
  /\ ConsistentOn(historyCache)
  /\ PairwiseOrdered(historyCache)

\* every entry of ents lies within the retention window at `now` (IST ms)
WithinRetention(ents, now) ==
  \A i \in 1..Len(ents) : ents[i].tISTms >= now - RETENTION_MINUTES * MsPerMinute

\* the response of this state is one of GET /api/snapshot or GET /api/recent
Served == variant = "cron" /\ res.kind \in {"snapshot", "recent"}

NewestFirstWithinWindow(hist) ==
  /\ Len(hist) <= HISTORY_KEEP
  /\ \A i \in 1..(Len(hist) - 1) : hist[i].data = hist[i + 1].data + 1
  /\ \A i \in 1..Len(hist) : hist[1].timestamp - hist[i].timestamp <= HISTORY_MAX_AGE_MS

\* the entry at position i of `old` is gone from `new` only if it has expired
\* at `now` or if 21 entries inserted after it are held
DroppedForAgeOrCapacity(old, new, now) ==
  \A i \in 1..Len(old) :
    (\A j \in 1..Len(new) : new[j] # old[i]) =>
      \/ now - old[i].timestamp > HISTORY_MAX_AGE_MS
      \/ i >= HISTORY_KEEP /\ Len(new) = HISTORY_KEEP

\* C23: after any sequence of addNewHistoryEntry calls (Date.now() never
\* going back), oneMinHistory holds at most 21 entries in the order of
\* insertion, newest first, all stamped within 30 minutes of the most recent
\* insertion; the entry just inserted is at index 0; and a call drops an
\* entry only if it has expired or if 21 entries inserted after it are kept,
\* so that of more than 21 unexpired entries the 21 latest are held.
C23_LatestTwentyOneInWindow ==
  /\ [](variant = "fragment" => NewestFirstWithinWindow(oneMinHistory))
  /\ []((variant = "fragment" /\ lastCall = "added") =>
          /\ oneMinHistory # <<>>
          /\ oneMinHistory[1].timestamp = clock
          /\ res.data = getHistoryData(oneMinHistory))
  /\ [][(variant = "fragment" /\ lastCall' = "added") =>
          /\ oneMinHistory' # <<>>
          /\ oneMinHistory'[1].data = Inserted + 1
          /\ DroppedForAgeOrCapacity(oneMinHistory, oneMinHistory', clock')]_vars

\* C23 witness: 23 entries were inserted within 30 minutes of each other and
\* the 21 latest are held, the first of them inserted later than the last
W23_CappedToLatest ==
  /\ variant = "fragment" /\ lastCall = "added"
  /\ Inserted = MaxInserts
  /\ Len(oneMinHistory) = HISTORY_KEEP
  /\ oneMinHistory[1].timestamp > oneMinHistory[HISTORY_KEEP].timestamp

\* C24 as claimed: in the cron variant at most one call of refreshFromBDG is
\* in flight at any time, be it the one of the start or one of a cron poll.
C24_OneRefreshInFlight == variant = "cron" => Len(cycles) <= 1

\* the entry at the head of `new` does not compare below the one at the head
\* of `old`
HeadNotBelow(old, new) ==
  old # <<>> => (new # <<>> /\ comparePeriods(new[1], old[1]) <= 0)

CronFires == variant = "cron" /\ primed /\ lastCall' \in {"started", "skipped"}

\* C26: the cron task starts at most one refresh per IST minute.  A firing
\* in the minute of lastMinuteKey changes nothing but the time; a firing
\* that starts a refresh is in a later minute than lastMinuteKey and
\* records its minute before the refresh settles; and nothing else changes
\* lastMinuteKey, so that a refresh that fails leaves its minute recorded
\* and no later firing in that minute starts another.
C26_OneRefreshPerMinute ==
  /\ [][(CronFires /\ clock' \div MsPerMinute = lastMinuteKey) =>
          /\ lastCall' = "skipped"
          /\ cycles' = cycles /\ entries' = entries
          /\ lastMinuteKey' = lastMinuteKey]_vars
  /\ [][(CronFires /\ cycles' # cycles) =>
          /\ clock' \div MsPerMinute > lastMinuteKey
          /\ lastMinuteKey' = clock' \div MsPerMinute
          /\ cycles' = Append(cycles, [src |-> "cron", pc |-> "http", at |-> clock'])]_vars
  /\ [][(variant = "cron" /\ lastMinuteKey' # lastMinuteKey) => (CronFires /\ lastCall' = "started")]_vars

\* C26 witness: the poll of this minute has ended with nothing kept (it
\* failed or brought no rows), the task has fired again in the same minute
\* and has started nothing
W26_NoRetryInTheMinute ==
  /\ variant = "cron" /\ lastCall = "skipped"
  /\ lastMinuteKey = clock \div MsPerMinute
  /\ cycles = <<>>
  /\ entries = <<>>

=============================================================================
